---- MODULE Spec2Model ----
(***************************************************************************)
(* A model of swl (src/SWL.hpp): the Application constructor, the window   *)
(* procedure WndProc, the pumps WaitMessage and PollMessage, and            *)
(* ApplicationException.  The Win32 platform is the environment: each       *)
(* platform call the code makes is modelled at its call site, and its       *)
(* outcome (success, failure, the message retrieved, the messages sent to   *)
(* WndProc while CreateWindowExW or ShowWindow runs) is drawn with \E.      *)
(* What the overridable hooks do is drawn with \E as well: a hook returns   *)
(* or raises, and HandleOtherMessages returns TRUE or FALSE.                *)
(***************************************************************************)
EXTENDS Integers, Sequences, FiniteSets, TLC

\* ------------------------------------------------------------ values

NULL == 0

\* Objects of the derived type the caller constructs, window handles the
\* platform hands out, window titles, and values of the last-error code.
Shells == {1, 2}
Handles == {1, 2}
Titles == {"A", "B"}
ERROR_CLASS_ALREADY_EXISTS == 1410
ErrCodes == {0, ERROR_CLASS_ALREADY_EXISTS}

\* How many messages the platform sends to WndProc within one CreateWindowExW
\* call and within one ShowWindow call.
MaxCreateMsgs == 2
MaxShowMsgs == 1

\* Message identifiers (Windows.h) the switch of WndProc names.
WM_NCCREATE == 129
WM_PAINT == 15
WM_KEYDOWN == 256
WM_KEYUP == 257
WM_LBUTTONDOWN == 513
WM_MBUTTONDOWN == 519
WM_RBUTTONDOWN == 516
WM_LBUTTONUP == 514
WM_MBUTTONUP == 520
WM_RBUTTONUP == 517
WM_MOUSEMOVE == 512
WM_CLOSE == 16
\* Identifiers the switch does not name: they reach its default branch.
WM_NULL == 0
WM_CREATE == 1
WM_SIZE == 5
WM_QUIT == 18
WM_SHOWWINDOW == 24
WM_GETMINMAXINFO == 36
WM_CHAR == 258
\* Logical button identifiers.
VK_LBUTTON == 1
VK_RBUTTON == 2
VK_MBUTTON == 4
\* A key code carried by a key message.
VK_A == 65

ModelledMsgs ==
    {WM_PAINT, WM_KEYDOWN, WM_KEYUP, WM_LBUTTONDOWN, WM_MBUTTONDOWN, WM_RBUTTONDOWN,
     WM_LBUTTONUP, WM_MBUTTONUP, WM_RBUTTONUP, WM_MOUSEMOVE, WM_CLOSE}

\* MAKELPARAM(x, y) for 16-bit signed x and y, and the two macros of Windowsx.h
\* that take it apart again: the low and the high word, each read as a short.
Word(v) == v % 65536
Short(w) == IF w >= 32768 THEN w - 65536 ELSE w
MAKELPARAM(x, y) == Word(x) + 65536 * Word(y)
GET_X_LPARAM(lParam) == Short(lParam % 65536)
GET_Y_LPARAM(lParam) == Short((lParam \div 65536) % 65536)

\* One observable step of an operation: a call the code makes (platform call
\* or hook) with up to four integer arguments.
Ev(name, a, b, c, d) == <<name, a, b, c, d>>

\* ------------------------------------------------------------ state

VARIABLES
    ctorPc,       \* per shell: where its constructor is
    m_hWnd,       \* per shell: Application::m_hWnd
    title,        \* per shell: lpWindowName of its construction
    registered,   \* platform: class names registered by RegisterClassW
    windows,      \* platform: handles of the windows that exist
    userData,     \* platform: per window, the GWLP_USERDATA slot
    cw,           \* the CreateWindowExW / ShowWindow call in progress, if any
    ncHandle,     \* per shell: hWnd of the WM_NCCREATE that carried the shell
    ctorCalls,    \* per shell: the platform calls its constructor has made
    ctorRet,      \* per shell: what RegisterClassW and CreateWindowExW returned to it
    ctorThrew,    \* per shell: lpInfo of the exception its constructor raised, if any
    quitPending,  \* platform: a quit signal posted and not yet retrieved
    lastError,    \* platform: what GetLastError returns
    m_info,       \* ApplicationException::m_info of the exception the caller holds
    thrown,       \* lpInfo and the last-error code when that exception was built
    reported,     \* text handed to MessageBoxW / OutputDebugStringW by this operation
    trace,        \* the calls made since control last entered the library, in order
    outcome,      \* how the last operation ended for its caller
    alive         \* the process has not been terminated by the platform

vars ==
    <<ctorPc, m_hWnd, title, registered, windows, userData, cw, ncHandle, ctorCalls,
      ctorRet, ctorThrew, quitPending, lastError, m_info, thrown, reported, trace, outcome, alive>>

Idle == [shell |-> NULL, hWnd |-> NULL, sent |-> 0]
NoThrow == [lpInfo |-> "", code |-> 0]

\* A platform call that has not returned (or was not made).
Pending == -1

\* ------------------------------------------------------------ ApplicationException

\* std::to_wstring of an unsigned value: its decimal digits, one character each.
DigitChars == <<"0", "1", "2", "3", "4", "5", "6", "7", "8", "9">>

RECURSIVE to_wstring(_)
to_wstring(n) ==
    IF n < 10 THEN <<DigitChars[n + 1]>>
    ELSE to_wstring(n \div 10) \o <<DigitChars[(n % 10) + 1]>>

Separator == " | Error code : "

\* ApplicationException::ApplicationException: m_info is the description, the
\* separator and the digits of GetLastError(), appended in that order.
ApplicationException(lpInfo, code) ==
    <<lpInfo>> \o <<Separator>> \o to_wstring(code)

RegisterFailed == "Failed to register the window class (RegisterClassW)"
CreateFailed == "Failed to create a window (CreateWindowEx)"
GetMessageFailed == "Failed to get a message (GetMessageW)"

\* ------------------------------------------------------------ WndProc

\* What a hook does when WndProc calls it.
HookOutcomes ==
    {[raise |-> FALSE, handled |-> FALSE],
     [raise |-> FALSE, handled |-> TRUE],
     [raise |-> TRUE, handled |-> FALSE]}

Quiet == [raise |-> FALSE, handled |-> FALSE]

\* A hook's outcome is drawn only where it is read: no hook runs without a
\* shell, and only HandleOtherMessages returns a value.
HookRead(p, uMsg, hook) ==
    /\ p = NULL => hook = Quiet
    /\ uMsg \in ModelledMsgs => ~hook.handled

\* What one case of the switch did: the calls it made, whether a hook raised
\* out of it, whether it posted the quit signal, whether it returned TRUE.
Branch(ev, raised, quit, returned) ==
    [ev |-> ev, raised |-> raised, quit |-> quit, returned |-> returned]

\* pDerivedType: the creation payload on WM_NCCREATE, else the user-data slot.
Lookup(uMsg, lParam, slot) ==
    IF uMsg = WM_NCCREATE THEN lParam ELSE slot

\* A first if that back-fills m_hWnd in both arms.
LookupCallsBackFillsAlways(hWnd, uMsg, lParam, slot) ==
    IF uMsg = WM_NCCREATE
    THEN <<Ev("SetWindowLongPtr", hWnd, lParam, 0, 0), Ev("m_hWnd", lParam, hWnd, 0, 0)>>
    ELSE <<Ev("GetWindowLongPtr", hWnd, slot, 0, 0), Ev("m_hWnd", slot, hWnd, 0, 0)>>

\* The calls of the two arms of the first if, and the assignment of m_hWnd
\* (shell, value) of the first arm.
LookupCalls(hWnd, uMsg, lParam, slot) ==
    IF uMsg = WM_NCCREATE
    THEN <<Ev("SetWindowLongPtr", hWnd, lParam, 0, 0), Ev("m_hWnd", lParam, hWnd, 0, 0)>>
    ELSE <<Ev("GetWindowLongPtr", hWnd, slot, 0, 0)>>

\* A hook call: the shell, two arguments, and whether the hook raised.
HookEv(name, p, a, b, hook) ==
    Ev(name, p, a, b, IF hook.raise THEN 1 ELSE 0)

\* case WM_PAINT
PaintCase(p, hWnd, hook) ==
    LET begin == <<Ev("BeginPaint", hWnd, 0, 0, 0), HookEv("OnPaint", p, 0, 0, hook)>>
    IN  IF hook.raise
        THEN Branch(begin, TRUE, FALSE, FALSE)
        ELSE Branch(begin \o <<Ev("EndPaint", hWnd, 0, 0, 0)>>, FALSE, FALSE, TRUE)

\* A case that calls its hook and leaves the switch without returning.
HookCaseBreaks(name, p, a, b, hook) ==
    Branch(<<HookEv(name, p, a, b, hook)>>, hook.raise, FALSE, FALSE)

\* A case that calls one hook and returns TRUE.
HookCase(name, p, a, b, hook) ==
    Branch(<<HookEv(name, p, a, b, hook)>>, hook.raise, FALSE, ~hook.raise)

\* A close case that leaves the switch without returning.
CloseCaseBreaks(p, hook) ==
    IF hook.raise
    THEN Branch(<<HookEv("OnClose", p, 0, 0, hook)>>, TRUE, FALSE, FALSE)
    ELSE Branch(<<HookEv("OnClose", p, 0, 0, hook), Ev("PostQuitMessage", 0, 0, 0, 0)>>,
                FALSE, TRUE, FALSE)

\* case WM_CLOSE
CloseCase(p, hook) ==
    IF hook.raise
    THEN Branch(<<HookEv("OnClose", p, 0, 0, hook)>>, TRUE, FALSE, FALSE)
    ELSE Branch(<<HookEv("OnClose", p, 0, 0, hook), Ev("PostQuitMessage", 0, 0, 0, 0)>>,
                FALSE, TRUE, TRUE)

\* A default branch that does not look at what the hook returned.
DefaultCaseIgnoresResult(p, uMsg, hook) ==
    Branch(<<HookEv("HandleOtherMessages", p, uMsg, IF hook.handled THEN 1 ELSE 0, hook)>>,
           hook.raise, FALSE, FALSE)

\* A switch with a case for the creation notification that calls no hook.
DefaultCaseSkipsCreation(p, uMsg, hook) ==
    IF uMsg = WM_NCCREATE
    THEN Branch(<<>>, FALSE, FALSE, FALSE)
    ELSE Branch(<<HookEv("HandleOtherMessages", p, uMsg, IF hook.handled THEN 1 ELSE 0, hook)>>,
                hook.raise, FALSE, ~hook.raise /\ hook.handled)

\* default: the hook's event carries the value it returned.
DefaultCase(p, uMsg, hook) ==
    Branch(<<HookEv("HandleOtherMessages", p, uMsg, IF hook.handled THEN 1 ELSE 0, hook)>>,
           hook.raise, FALSE, ~hook.raise /\ hook.handled)

\* The switch, entered with a non-null pDerivedType.
Switch(p, hWnd, uMsg, wParam, lParam, hook) ==
    CASE uMsg = WM_PAINT -> PaintCase(p, hWnd, hook)
      [] uMsg = WM_KEYDOWN -> HookCase("OnKeyDown", p, wParam, 0, hook)
      [] uMsg = WM_KEYUP -> HookCase("OnKeyUp", p, wParam, 0, hook)
      [] uMsg = WM_LBUTTONDOWN -> HookCase("OnMouseButtonDown", p, VK_LBUTTON, 0, hook)
      [] uMsg = WM_MBUTTONDOWN -> HookCase("OnMouseButtonDown", p, VK_MBUTTON, 0, hook)
      [] uMsg = WM_RBUTTONDOWN -> HookCase("OnMouseButtonDown", p, VK_RBUTTON, 0, hook)
      [] uMsg = WM_LBUTTONUP -> HookCase("OnMouseButtonUp", p, VK_LBUTTON, 0, hook)
      [] uMsg = WM_MBUTTONUP -> HookCase("OnMouseButtonUp", p, VK_MBUTTON, 0, hook)
      [] uMsg = WM_RBUTTONUP -> HookCase("OnMouseButtonUp", p, VK_RBUTTON, 0, hook)
      [] uMsg = WM_MOUSEMOVE ->
            HookCase("OnMouseMove", p, GET_X_LPARAM(lParam), GET_Y_LPARAM(lParam), hook)
      [] uMsg = WM_CLOSE -> CloseCase(p, hook)
      [] OTHER -> DefaultCase(p, uMsg, hook)

\* What the platform's default handling returns: TRUE for the creation
\* notification (creation goes on), zero for the other messages of the model.
DefWindowProc(uMsg) ==
    IF uMsg = WM_NCCREATE THEN 1 ELSE 0

\* The platform's default handling of a close request destroys the window.
DefWindowProcDestroys(uMsg) ==
    uMsg = WM_CLOSE

\* A window procedure that enters the switch without looking at pDerivedType.
HasShellUnchecked(pDerivedType) ==
    TRUE

\* if (pDerivedType)
HasShell(pDerivedType) ==
    pDerivedType # NULL

\* Application::WndProc.  slot is the value of the window's GWLP_USERDATA; on
\* WM_NCCREATE lParam stands for pCreate->lpCreateParams.  The result names
\* pDerivedType (p), the calls made, whether a hook raised out of the
\* procedure, whether the quit signal was posted, whether the default
\* handling it called destroyed the window, and the value returned;
\* the calls end with the return and its value when the procedure returns.
WndProc(hWnd, uMsg, wParam, lParam, slot, hook) ==
    LET p == Lookup(uMsg, lParam, slot)
        b == IF HasShell(p)
             THEN Switch(p, hWnd, uMsg, wParam, lParam, hook)
             ELSE Branch(<<>>, FALSE, FALSE, FALSE)
        fall == ~b.raised /\ ~b.returned
        ret == IF b.returned THEN 1 ELSE IF fall THEN DefWindowProc(uMsg) ELSE 0
    IN  [p |-> p,
         ev |-> <<Ev("WndProc", hWnd, uMsg, wParam, lParam)>> \o
                LookupCalls(hWnd, uMsg, lParam, slot) \o b.ev \o
                (IF fall THEN <<Ev("DefWindowProc", hWnd, uMsg, wParam, lParam)>>
                 ELSE <<>>) \o
                (IF b.raised THEN <<>> ELSE <<Ev("return", ret, 0, 0, 0)>>),
         raised |-> b.raised,
         quit |-> b.quit,
         destroyed |-> fall /\ DefWindowProcDestroys(uMsg),
         ret |-> ret]

\* ------------------------------------------------------------ initial state

\* No shell is constructed yet; m_hWnd gets its first value when the
\* constructor is entered.
Init ==
    /\ ctorPc = [s \in Shells |-> "new"]
    /\ m_hWnd = [s \in Shells |-> NULL]
    /\ title = [s \in Shells |-> ""]
    /\ registered = {}
    /\ windows = {}
    /\ userData = [h \in Handles |-> NULL]
    /\ cw = Idle
    /\ ncHandle = [s \in Shells |-> NULL]
    /\ ctorCalls = [s \in Shells |-> {}]
    /\ ctorRet = [s \in Shells |-> [RegisterClassW |-> Pending, CreateWindowExW |-> Pending]]
    /\ ctorThrew = [s \in Shells |-> ""]
    /\ quitPending = FALSE
    /\ lastError = 0
    /\ m_info = <<>>
    /\ thrown = NoThrow
    /\ reported = <<>>
    /\ trace = <<>>
    /\ outcome = "none"
    /\ alive = TRUE

\* The caller may start an operation: the process lives and no constructor is
\* inside CreateWindowExW or ShowWindow (one thread).
Ready == alive /\ cw.shell = NULL

\* throw ApplicationException(lpInfo), with the last-error code the failed
\* platform call left.  The exception object is the caller's until the caller
\* starts its next operation on a shell.
Throw(lpInfo, code) ==
    /\ lastError' = code
    /\ m_info' = ApplicationException(lpInfo, code)
    /\ thrown' = [lpInfo |-> lpInfo, code |-> code]
    /\ outcome' = "ApplicationException"

\* ------------------------------------------------------------ Application::Application

\* A constructor that does not look at what RegisterClassW returned.
RegisterFailsUnchecked(atom) ==
    FALSE

\* The test the constructor makes on the atom RegisterClassW returned.
RegisterFails(atom) ==
    atom = 0

\* The constructor up to its entry into CreateWindowExW.  m_hWnd has no
\* initialiser: it starts as whatever the object's storage held (junk).
\* RegisterClassW fails for a class name that is registered already, and may
\* fail otherwise; CreateWindowExW allocates the window and its handle, the
\* lowest one free (the code stores and compares handles, nothing else).
Construct(s, lpWindowName, junk, regOk, h, code) ==
    LET atom == IF regOk THEN 1 ELSE 0
    IN  /\ Ready
        /\ ctorPc[s] = "new"
        /\ regOk => lpWindowName \notin registered
        /\ IF regOk
           THEN h \in Handles \ windows /\ (\A k \in Handles \ windows : h <= k)
                /\ code = lastError
           ELSE h = NULL
                /\ (lpWindowName \in registered => code = ERROR_CLASS_ALREADY_EXISTS)
        /\ title' = [title EXCEPT ![s] = lpWindowName]
        /\ m_hWnd' = [m_hWnd EXCEPT ![s] = junk]
        /\ reported' = <<>>
        /\ registered' = IF regOk THEN registered \cup {lpWindowName} ELSE registered
        /\ IF RegisterFails(atom)
           THEN /\ Throw(RegisterFailed, code)
                /\ ctorPc' = [ctorPc EXCEPT ![s] = "raised"]
                /\ ctorCalls' = [ctorCalls EXCEPT ![s] = {"RegisterClassW"}]
                /\ ctorRet' = [ctorRet EXCEPT ![s].RegisterClassW = atom]
                /\ ctorThrew' = [ctorThrew EXCEPT ![s] = RegisterFailed]
                /\ trace' = <<Ev("GetModuleHandleW", 0, 0, 0, 0),
                              Ev("RegisterClassW", atom, 0, 0, 0)>>
                /\ UNCHANGED <<windows, userData, cw>>
           ELSE /\ windows' = windows \cup {h}
                /\ userData' = [k \in Handles |-> IF k = h THEN NULL ELSE userData[k]]
                /\ cw' = [shell |-> s, hWnd |-> h, sent |-> 0]
                /\ ctorPc' = [ctorPc EXCEPT ![s] = "creating"]
                /\ ctorCalls' = [ctorCalls EXCEPT ![s] = {"RegisterClassW", "CreateWindowExW"}]
                /\ ctorRet' = [ctorRet EXCEPT ![s].RegisterClassW = atom]
                /\ trace' = <<Ev("GetModuleHandleW", 0, 0, 0, 0),
                              Ev("RegisterClassW", atom, 0, 0, 0),
                              Ev("CreateWindowExW", s, 0, 0, 0)>>
                /\ outcome' = "running"
                /\ m_info' = <<>>
                /\ thrown' = NoThrow
                /\ UNCHANGED <<lastError, ctorThrew>>
        /\ UNCHANGED <<ncHandle, quitPending, alive>>

\* The value of the window's slot once WndProc has run: SetWindowLongPtr stores
\* pDerivedType on WM_NCCREATE, and no other message stores anything.
SlotAfter(uMsg, p, slot) ==
    IF uMsg = WM_NCCREATE THEN p ELSE slot

\* A creation-notification branch without the assignment of m_hWnd.
HandleAfterNoBackFill(uMsg, hWnd, old) ==
    old

\* The value of pDerivedType->m_hWnd once WndProc has run: hWnd on
\* WM_NCCREATE, what it was (old) on every other message.
HandleAfter(uMsg, hWnd, old) ==
    IF uMsg = WM_NCCREATE THEN hWnd ELSE old

\* One message the platform sends to the class's window procedure while the
\* constructor is inside a platform call.  A hook that raises unwinds out of a
\* frame the platform entered: the platform swallows the exception and goes on,
\* or terminates the process.
Callback(uMsg, hook, goesOn) ==
    LET s == cw.shell
        h == cw.hWnd
        r == WndProc(h, uMsg, 0, IF uMsg = WM_NCCREATE THEN s ELSE 0, userData[h], hook)
    IN  /\ alive
        /\ s # NULL
        /\ HookRead(r.p, uMsg, hook)
        /\ goesOn \/ hook.raise
        /\ userData' = [userData EXCEPT ![h] = SlotAfter(uMsg, r.p, userData[h])]
        /\ m_hWnd' = IF r.p = NULL THEN m_hWnd
                      ELSE [m_hWnd EXCEPT ![r.p] = HandleAfter(uMsg, h, m_hWnd[r.p])]
        /\ ncHandle' = IF uMsg = WM_NCCREATE THEN [ncHandle EXCEPT ![r.p] = h] ELSE ncHandle
        /\ quitPending' = (quitPending \/ r.quit)
        /\ trace' = r.ev
        /\ cw' = [cw EXCEPT !.sent = @ + 1]
        /\ alive' = (~r.raised \/ goesOn)
        /\ outcome' = IF r.raised /\ ~goesOn THEN "terminated" ELSE outcome
        /\ UNCHANGED <<ctorPc, title, registered, windows, ctorCalls, ctorRet, ctorThrew,
                       lastError, m_info, thrown, reported>>

\* Messages the platform sends while it creates a window, and while it shows one.
CreateMsgs == {WM_GETMINMAXINFO, WM_NCCREATE, WM_CREATE, WM_SIZE}
ShowMsgs == {WM_SHOWWINDOW, WM_SIZE}

\* CreateWindowExW sends a message; the creation notification comes once.
CreateMessage(uMsg, hook, goesOn) ==
    /\ cw.shell # NULL
    /\ ctorPc[cw.shell] = "creating"
    /\ cw.sent < MaxCreateMsgs
    /\ uMsg = WM_NCCREATE => ncHandle[cw.shell] = NULL
    /\ Callback(uMsg, hook, goesOn)

\* A constructor that tests the handle the wrong way round.
AfterCreateInverted(hRet) ==
    [m_hWnd |-> hRet, throw |-> hRet # NULL]

\* A constructor that does not test the handle.
AfterCreateUnchecked(hRet) ==
    [m_hWnd |-> hRet, throw |-> FALSE]

\* The constructor from the return of CreateWindowExW on: the assignment of
\* m_hWnd, the null check, and the call of ShowWindow.
AfterCreate(hRet) ==
    [m_hWnd |-> hRet, throw |-> hRet = NULL]

\* A constructor that unregisters its class before it raises the creation
\* failure.
ClassesAfterUnregistering(hRet, lpClassName) ==
    IF hRet = NULL THEN registered \ {lpClassName} ELSE registered

\* The registered classes once the constructor is past the null check: it
\* raises or goes on without a call that unregisters the class.
ClassesAfter(hRet, lpClassName) ==
    registered

\* CreateWindowExW returns: the handle of the window once the creation
\* notification was delivered, or null, the window then being destroyed.
\* The constructor assigns what it returned to m_hWnd.
CreateReturn(ok, code) ==
    LET s == cw.shell
        h == cw.hWnd
        hRet == IF ok THEN h ELSE NULL
        c == AfterCreate(hRet)
        assigned == <<Ev("CreateWindowExW returns", hRet, 0, 0, 0),
                      Ev("m_hWnd", s, c.m_hWnd, 0, 0)>>
    IN  /\ alive
        /\ s # NULL
        /\ ctorPc[s] = "creating"
        /\ ok => ncHandle[s] = h /\ code = lastError
        /\ m_hWnd' = [m_hWnd EXCEPT ![s] = c.m_hWnd]
        /\ ctorRet' = [ctorRet EXCEPT ![s].CreateWindowExW = hRet]
        /\ windows' = IF ok THEN windows ELSE windows \ {h}
        /\ userData' = IF ok THEN userData ELSE [userData EXCEPT ![h] = NULL]
        /\ IF c.throw
           THEN /\ Throw(CreateFailed, code)
                /\ ctorPc' = [ctorPc EXCEPT ![s] = "raised"]
                /\ cw' = Idle
                /\ ctorThrew' = [ctorThrew EXCEPT ![s] = CreateFailed]
                /\ trace' = assigned
                /\ UNCHANGED ctorCalls
           ELSE /\ ctorPc' = [ctorPc EXCEPT ![s] = "showing"]
                /\ cw' = [cw EXCEPT !.sent = 0]
                /\ ctorCalls' = [ctorCalls EXCEPT ![s] = @ \cup {"ShowWindow"}]
                /\ trace' = assigned \o <<Ev("ShowWindow", c.m_hWnd, 0, 0, 0)>>
                /\ UNCHANGED <<lastError, m_info, thrown, outcome, ctorThrew>>
        /\ registered' = ClassesAfter(hRet, title[s])
        /\ UNCHANGED <<title, ncHandle, quitPending, reported, alive>>

\* ShowWindow sends a message.
ShowMessage(uMsg, hook, goesOn) ==
    /\ cw.shell # NULL
    /\ ctorPc[cw.shell] = "showing"
    /\ cw.sent < MaxShowMsgs
    /\ Callback(uMsg, hook, goesOn)

\* ShowWindow returns and the constructor with it.
ShowReturn ==
    /\ alive
    /\ cw.shell # NULL
    /\ ctorPc[cw.shell] = "showing"
    /\ ctorPc' = [ctorPc EXCEPT ![cw.shell] = "done"]
    /\ cw' = Idle
    /\ outcome' = "returned"
    /\ trace' = <<>>
    /\ UNCHANGED <<m_hWnd, title, registered, windows, userData, ncHandle, ctorCalls,
                   ctorRet, ctorThrew, quitPending, lastError, m_info, thrown, reported,
                   alive>>

\* ------------------------------------------------------------ the pumps

\* MSG, as far as the code looks at it; MSG msg = {} is the zeroed one.
Msg(hwnd, message, wParam, lParam) ==
    [hwnd |-> hwnd, message |-> message, wParam |-> wParam, lParam |-> lParam]

ZeroMsg == Msg(NULL, WM_NULL, 0, 0)
QuitMsg == Msg(NULL, WM_QUIT, 0, 0)

MouseLParams == {MAKELPARAM(3, 7), MAKELPARAM(-2, 5)}

\* The messages that can wait in the thread's queue for the windows that
\* exist, and what a retrieval can yield: one of them, or the quit signal once
\* it is posted.
Posted ==
    {Msg(h, m, 0, 0) : h \in windows,
        m \in {WM_PAINT, WM_LBUTTONDOWN, WM_MBUTTONDOWN, WM_RBUTTONDOWN, WM_LBUTTONUP,
               WM_MBUTTONUP, WM_RBUTTONUP, WM_CLOSE, WM_CHAR}}
    \cup {Msg(h, m, VK_A, 0) : h \in windows, m \in {WM_KEYDOWN, WM_KEYUP}}
    \cup {Msg(h, WM_MOUSEMOVE, 0, l) : h \in windows, l \in MouseLParams}

Retrievable ==
    Posted \cup (IF quitPending THEN {QuitMsg} ELSE {})

\* TranslateMessage(&msg); DispatchMessageW(&msg);
PumpCalls(msg) ==
    <<Ev("TranslateMessage", msg.hwnd, msg.message, msg.wParam, msg.lParam),
      Ev("DispatchMessageW", msg.hwnd, msg.message, msg.wParam, msg.lParam)>>

\* DispatchMessageW: the window procedure of the message's window is called;
\* a message that names no window reaches no window procedure.
Dispatch(msg, hook) ==
    IF msg.hwnd = NULL
    THEN [p |-> NULL, ev |-> <<>>, raised |-> FALSE, quit |-> FALSE, destroyed |-> FALSE,
          ret |-> 0]
    ELSE WndProc(msg.hwnd, msg.message, msg.wParam, msg.lParam, userData[msg.hwnd], hook)

\* What a pump does with msg once the retrieval is behind it.  No message of
\* Posted is the creation notification, so WndProc writes neither the
\* user-data slot nor m_hWnd here; a window that the default handling
\* destroyed is gone, and its slot with it.
Pump(first, msg, taken, hook) ==
    LET r == Dispatch(msg, hook)
    IN  /\ trace' = first \o PumpCalls(msg) \o r.ev
        /\ quitPending' = ((quitPending /\ ~taken) \/ r.quit)
        /\ outcome' = IF r.raised THEN "hookException" ELSE "returned"
        /\ windows' = IF r.destroyed THEN windows \ {msg.hwnd} ELSE windows
        /\ userData' = IF r.destroyed THEN [userData EXCEPT ![msg.hwnd] = NULL] ELSE userData
        /\ m_info' = <<>>
        /\ thrown' = NoThrow
        /\ UNCHANGED lastError

\* The shells a pump can be called on.  Neither pump reads or writes a member
\* of its object, so the model does not record which one it is called on.
Constructed == {s \in Shells : ctorPc[s] = "done"}

\* A test for zero in place of the test for -1.
WaitMessageFailsOnZero(ret) ==
    ret = 0

\* The test WaitMessage makes on what GetMessageW returned.
WaitMessageFails(ret) ==
    ret = -1

\* Application::WaitMessage.  GetMessageW returns -1 on failure and leaves msg
\* zeroed, 0 with the quit signal, nonzero with any other message.  got is
\* the message retrieved, one of Retrievable, or ZeroMsg when there is none.
WaitMessage(failed, got, hook, code) ==
    LET msg == IF failed THEN ZeroMsg ELSE got
        ret == IF failed THEN -1 ELSE IF got = QuitMsg THEN 0 ELSE 1
        first == <<Ev("GetMessageW", ret, 0, 0, 0),
                   Ev("msg", msg.hwnd, msg.message, msg.wParam, msg.lParam)>>
    IN  /\ Ready
        /\ Constructed # {}
        /\ IF failed THEN got = ZeroMsg ELSE got # ZeroMsg /\ code = lastError
        /\ HookRead(IF msg.hwnd = NULL THEN NULL ELSE userData[msg.hwnd], msg.message, hook)
        /\ reported' = <<>>
        /\ IF WaitMessageFails(ret)
           THEN /\ Throw(GetMessageFailed, code)
                /\ trace' = first
                /\ quitPending' = (quitPending /\ (failed \/ got # QuitMsg))
                /\ UNCHANGED <<windows, userData>>
           ELSE Pump(first, msg, ~failed /\ got = QuitMsg, hook)
        /\ UNCHANGED <<ctorPc, m_hWnd, title, registered, cw, ncHandle,
                       ctorCalls, ctorRet, ctorThrew, alive>>

\* Whether PollMessage goes on to translate and dispatch after PeekMessageW
\* returned found: the code does not look at it.
PollMessageDispatches(found) ==
    TRUE

\* Application::PollMessage.  PeekMessageW returns FALSE and leaves msg zeroed
\* when nothing is pending.
PollMessage(found, got, hook) ==
    LET msg == IF found THEN got ELSE ZeroMsg
        first == <<Ev("PeekMessageW", IF found THEN 1 ELSE 0, 0, 0, 0),
                   Ev("msg", msg.hwnd, msg.message, msg.wParam, msg.lParam)>>
    IN  /\ Ready
        /\ Constructed # {}
        /\ IF found THEN got # ZeroMsg ELSE got = ZeroMsg
        /\ HookRead(IF msg.hwnd = NULL THEN NULL ELSE userData[msg.hwnd], msg.message, hook)
        /\ reported' = <<>>
        /\ IF PollMessageDispatches(found)
           THEN Pump(first, msg, found /\ got = QuitMsg, hook)
           ELSE /\ trace' = first
                /\ quitPending' = (quitPending /\ ~(found /\ got = QuitMsg))
                /\ outcome' = "returned"
                /\ m_info' = <<>>
                /\ thrown' = NoThrow
                /\ UNCHANGED <<lastError, windows, userData>>
        /\ UNCHANGED <<ctorPc, m_hWnd, title, registered, cw, ncHandle,
                       ctorCalls, ctorRet, ctorThrew, alive>>

\* ------------------------------------------------------------ reporting

\* A report that formats the description with the last-error code of the
\* moment of the report.
ReportTextAtReportTime(info, code) ==
    ApplicationException(info[1], code)

\* The text a report action hands to the platform: m_info.c_str().
ReportText(info, code) ==
    info

\* ApplicationException::ShowMessageBox on the exception raised last; the
\* platform call may change the last-error code.
ShowMessageBox(code) ==
    /\ Ready
    /\ m_info # <<>>
    /\ reported' = ReportText(m_info, lastError)
    /\ trace' = <<Ev("MessageBoxW", 0, 0, 0, 0)>>
    /\ lastError' = code
    /\ outcome' = "returned"
    /\ UNCHANGED <<ctorPc, m_hWnd, title, registered, windows, userData, cw, ncHandle,
                   ctorCalls, ctorRet, ctorThrew, quitPending, m_info, thrown, alive>>

\* ApplicationException::ShowDebugOutput, likewise.
ShowDebugOutput(code) ==
    /\ Ready
    /\ m_info # <<>>
    /\ reported' = ReportText(m_info, lastError)
    /\ trace' = <<Ev("OutputDebugStringW", 0, 0, 0, 0)>>
    /\ lastError' = code
    /\ outcome' = "returned"
    /\ UNCHANGED <<ctorPc, m_hWnd, title, registered, windows, userData, cw, ncHandle,
                   ctorCalls, ctorRet, ctorThrew, quitPending, m_info, thrown, alive>>

\* ------------------------------------------------------------ specification

Next ==
    \/ \E s \in Shells, t \in Titles, junk \in Handles \cup {NULL}, regOk \in BOOLEAN, h \in Handles \cup {NULL},
          code \in ErrCodes :
          Construct(s, t, junk, regOk, h, code)
    \/ \E uMsg \in CreateMsgs, hook \in HookOutcomes, goesOn \in BOOLEAN :
          CreateMessage(uMsg, hook, goesOn)
    \/ \E ok \in BOOLEAN, code \in ErrCodes : CreateReturn(ok, code)
    \/ \E uMsg \in ShowMsgs, hook \in HookOutcomes, goesOn \in BOOLEAN :
          ShowMessage(uMsg, hook, goesOn)
    \/ ShowReturn
    \/ \E failed \in BOOLEAN, got \in Retrievable \cup {ZeroMsg},
          hook \in HookOutcomes, code \in ErrCodes :
          WaitMessage(failed, got, hook, code)
    \/ \E found \in BOOLEAN, got \in Retrievable \cup {ZeroMsg}, hook \in HookOutcomes :
          PollMessage(found, got, hook)
    \/ \E code \in ErrCodes : ShowMessageBox(code)
    \/ \E code \in ErrCodes : ShowDebugOutput(code)

Spec == Init /\ [][Next]_vars

\* ------------------------------------------------------------ reading the trace

Count(name) == Cardinality({i \in DOMAIN trace : trace[i][1] = name})
Has(name) == \E i \in DOMAIN trace : trace[i][1] = name
At(name) == CHOOSE i \in DOMAIN trace : trace[i][1] = name

\* ------------------------------------------------------------ C1

\* C1: once RegisterClassW has succeeded and CreateWindowExW has returned a
\* non-null handle h to a shell's constructor, the constructor has not raised
\* (it is showing the window or has returned), and the shell's m_hWnd is h,
\* non-null, and the handle the creation notification WM_NCCREATE carried.
C1_HandleAfterCreation ==
    \A s \in Shells :
        (ctorRet[s].RegisterClassW = 1 /\ ctorRet[s].CreateWindowExW \in Handles) =>
            /\ ctorPc[s] \in {"showing", "done"}
            /\ ctorThrew[s] = ""
            /\ m_hWnd[s] # NULL
            /\ m_hWnd[s] = ctorRet[s].CreateWindowExW
            /\ m_hWnd[s] = ncHandle[s]

\* A constructor has returned to its caller after a successful registration
\* and creation.
C1_Witness ==
    \E s \in Shells :
        /\ ctorPc[s] = "done"
        /\ outcome = "returned"
        /\ trace = <<>>
        /\ ctorRet[s].CreateWindowExW \in Handles
        /\ m_hWnd[s] = ncHandle[s]

\* ------------------------------------------------------------ C2

\* C2: when RegisterClassW fails (returns 0) the constructor raises the
\* registration failure, and that construction calls neither CreateWindowExW
\* nor ShowWindow, then or later.
C2_RegistrationFailure ==
    \A s \in Shells :
        ctorRet[s].RegisterClassW = 0 =>
            /\ ctorPc[s] = "raised"
            /\ ctorThrew[s] = RegisterFailed
            /\ ctorCalls[s] = {"RegisterClassW"}
            /\ ctorRet[s].CreateWindowExW = Pending

\* A registration has failed, the caller holds the exception, and another
\* operation has run since on the other shell.
C2_Witness ==
    \E s \in Shells :
        /\ ctorRet[s].RegisterClassW = 0
        /\ \E o \in Shells \ {s} : ctorPc[o] = "done"
        /\ Has("DispatchMessageW")

\* ------------------------------------------------------------ C3

\* C3: when RegisterClassW succeeds and CreateWindowExW returns null, the
\* constructor raises the creation failure and never calls ShowWindow,
\* whatever messages reached WndProc during the failed creation.
C3_CreationFailure ==
    \A s \in Shells :
        (ctorRet[s].RegisterClassW = 1 /\ ctorRet[s].CreateWindowExW = NULL) =>
            /\ ctorPc[s] = "raised"
            /\ ctorThrew[s] = CreateFailed
            /\ "ShowWindow" \notin ctorCalls[s]

\* A creation has failed after the creation notification was delivered and
\* had back-filled m_hWnd.
C3_Witness ==
    \E s \in Shells :
        /\ ctorRet[s].RegisterClassW = 1
        /\ ctorRet[s].CreateWindowExW = NULL
        /\ ncHandle[s] # NULL
        /\ ctorPc[s] = "raised"
        /\ m_info = ApplicationException(CreateFailed, lastError)

\* ------------------------------------------------------------ C4 to C9

\* WndProc was entered with message uMsg.
Entered(uMsg) ==
    \E i \in DOMAIN trace : trace[i][1] = "WndProc" /\ trace[i][3] = uMsg

\* The window WndProc was entered for has an associated shell: the slot read
\* was not null, or the creation notification has just stored one.
Associated ==
    \/ Has("GetWindowLongPtr") /\ trace[At("GetWindowLongPtr")][3] # NULL
    \/ Has("SetWindowLongPtr") /\ trace[At("SetWindowLongPtr")][3] # NULL

\* C4: WM_PAINT dispatched to a window with an associated shell invokes
\* OnPaint exactly once, and BeginPaint is executed before it and EndPaint
\* after it in every case, also when OnPaint raises.
C4_PaintBracketed ==
    (Entered(WM_PAINT) /\ Associated) =>
        /\ Count("OnPaint") = 1
        /\ Count("BeginPaint") = 1
        /\ Count("EndPaint") = 1
        /\ At("BeginPaint") < At("OnPaint")
        /\ At("OnPaint") < At("EndPaint")

\* C5: WM_CLOSE dispatched to a window with an associated shell invokes
\* OnClose exactly once and a quit signal is posted after it, whether OnClose
\* returns or raises.
C5_CloseAlwaysQuits ==
    (Entered(WM_CLOSE) /\ Associated) =>
        /\ Count("OnClose") = 1
        /\ Count("PostQuitMessage") = 1
        /\ At("OnClose") < At("PostQuitMessage")
        /\ quitPending

\* A pump has just retrieved the quit signal.
QuitRetrieved ==
    Has("msg") /\ trace[At("msg")][3] = WM_QUIT

\* C6: the quit signal posted by the close branch ends the caller's loop: the
\* pump that retrieves it lets its caller observe it (the caller is handed
\* something other than the plain return of any other message), or at the
\* least the signal stays pending for the caller to see.
C6_QuitObserved ==
    QuitRetrieved => (outcome = "quit" \/ quitPending)

\* C7: a message outside the modelled set dispatched to a window with an
\* associated shell invokes HandleOtherMessages exactly once, with that id;
\* when the hook returns TRUE, DefWindowProc is not invoked, and when it
\* returns FALSE, DefWindowProc is invoked exactly once, with the message.
C7_OtherMessages ==
    \A i \in DOMAIN trace :
        (trace[i][1] = "WndProc" /\ trace[i][3] \notin ModelledMsgs /\ Associated) =>
            /\ Count("HandleOtherMessages") = 1
            /\ LET hk == trace[At("HandleOtherMessages")]
               IN  /\ hk[3] = trace[i][3]
                   /\ (hk[5] = 0 /\ hk[4] = 1) => Count("DefWindowProc") = 0
                   /\ (hk[5] = 0 /\ hk[4] = 0) =>
                          /\ Count("DefWindowProc") = 1
                          /\ trace[At("DefWindowProc")] =
                                 Ev("DefWindowProc", trace[i][2], trace[i][3], trace[i][4],
                                    trace[i][5])

\* A pump has dispatched an unmodelled message and the hook has handled it.
C7_Witness ==
    /\ Has("DispatchMessageW")
    /\ Entered(WM_CHAR)
    /\ Has("HandleOtherMessages")
    /\ trace[At("HandleOtherMessages")][4] = 1
    /\ ~Has("DefWindowProc")

\* C8: when PeekMessageW finds nothing, PollMessage translates nothing,
\* dispatches nothing and invokes no window procedure.
C8_PollNoop ==
    (Has("PeekMessageW") /\ trace[At("PeekMessageW")][2] = 0) =>
        /\ ~Has("TranslateMessage")
        /\ ~Has("DispatchMessageW")
        /\ ~Has("WndProc")

\* C9: when GetMessageW reports failure (-1), WaitMessage raises the retrieval
\* failure and neither translates nor dispatches; otherwise it translates
\* and then dispatches the retrieved message, each once, and raises no
\* retrieval failure.
C9_WaitMessage ==
    Has("GetMessageW") =>
        LET ret == trace[At("GetMessageW")][2]
            got == trace[At("msg")]
        IN  IF ret = -1
            THEN /\ outcome = "ApplicationException"
                 /\ thrown.lpInfo = GetMessageFailed
                 /\ m_info # <<>>
                 /\ ~Has("TranslateMessage")
                 /\ ~Has("DispatchMessageW")
                 /\ ~Has("WndProc")
            ELSE /\ outcome # "ApplicationException"
                 /\ m_info = <<>>
                 /\ Count("TranslateMessage") = 1
                 /\ Count("DispatchMessageW") = 1
                 /\ At("TranslateMessage") < At("DispatchMessageW")
                 /\ trace[At("TranslateMessage")] =
                        Ev("TranslateMessage", got[2], got[3], got[4], got[5])
                 /\ trace[At("DispatchMessageW")] =
                        Ev("DispatchMessageW", got[2], got[3], got[4], got[5])
                 /\ got[2] # NULL =>
                        /\ Count("WndProc") = 1
                        /\ trace[At("WndProc")] = Ev("WndProc", got[2], got[3], got[4], got[5])

\* WaitMessage has raised on a failed retrieval.
C9_Witness ==
    /\ Has("GetMessageW")
    /\ trace[At("GetMessageW")][2] = -1
    /\ outcome = "ApplicationException"
    /\ m_info = ApplicationException(GetMessageFailed, lastError)

\* ------------------------------------------------------------ C10

DigitValue(c) == CHOOSE d \in 0..9 : DigitChars[d + 1] = c

\* The number a sequence of decimal digits writes.
RECURSIVE FromDigits(_)
FromDigits(ds) ==
    IF Len(ds) = 1 THEN DigitValue(ds[1])
    ELSE 10 * FromDigits(SubSeq(ds, 1, Len(ds) - 1)) + DigitValue(ds[Len(ds)])

\* text holds lpInfo, and after it the separator followed by digits that
\* write code, up to its end.
Carries(text, lpInfo, code) ==
    \E k \in 2..(Len(text) - 1) :
        /\ text[k] = Separator
        /\ \E j \in 1..(k - 1) : text[j] = lpInfo
        /\ FromDigits(SubSeq(text, k + 1, Len(text))) = code

\* C10: the message of the exception the caller holds contains the
\* description it was built with and the last-error code of that moment, and
\* so does every text a report action hands out, whatever the last-error code
\* has become since and however many reports were made.
C10_MessageFixed ==
    /\ m_info # <<>> => Carries(m_info, thrown.lpInfo, thrown.code)
    /\ reported # <<>> =>
          /\ m_info # <<>>
          /\ reported = m_info
          /\ Carries(reported, thrown.lpInfo, thrown.code)

\* A report was made while the last-error code differed from the one the
\* exception was built with.
C10_Witness ==
    /\ reported # <<>>
    /\ reported = ApplicationException(thrown.lpInfo, thrown.code)
    /\ thrown.code = ERROR_CLASS_ALREADY_EXISTS
    /\ lastError # thrown.code

\* ------------------------------------------------------------ C11

\* The hooks of the shell, and the platform calls the cases of the switch make.
HookNames ==
    {"OnPaint", "OnKeyDown", "OnKeyUp", "OnMouseButtonDown", "OnMouseButtonUp",
     "OnMouseMove", "OnClose", "HandleOtherMessages"}
SwitchCalls == HookNames \cup {"BeginPaint", "EndPaint", "PostQuitMessage"}

\* The messages the model delivers.
AllMsgs ==
    ModelledMsgs \cup CreateMsgs \cup ShowMsgs \cup {WM_CHAR, WM_NULL, WM_QUIT}

\* What WndProc does without a shell: it reads the slot and hands the
\* message to DefWindowProc.
FallThrough(hWnd, uMsg, wParam, lParam) ==
    <<Ev("WndProc", hWnd, uMsg, wParam, lParam),
      Ev("GetWindowLongPtr", hWnd, NULL, 0, 0),
      Ev("DefWindowProc", hWnd, uMsg, wParam, lParam),
      Ev("return", DefWindowProc(uMsg), 0, 0, 0)>>

\* C11: a message other than WM_NCCREATE that reaches WndProc for a window
\* whose user-data slot is empty invokes no hook (HandleOtherMessages
\* included), begins no paint session, posts no quit signal, and is handed to
\* DefWindowProc exactly once, unchanged.  This holds of the call the last
\* operation made, and of WndProc for every message of the model.
C11_NoShellFallsThrough ==
    /\ \A i \in DOMAIN trace :
          (/\ trace[i][1] = "WndProc"
           /\ trace[i][3] # WM_NCCREATE
           /\ Has("GetWindowLongPtr")
           /\ trace[At("GetWindowLongPtr")][3] = NULL) =>
              /\ \A j \in DOMAIN trace : trace[j][1] \notin SwitchCalls
              /\ Count("DefWindowProc") = 1
              /\ trace[At("DefWindowProc")] =
                     Ev("DefWindowProc", trace[i][2], trace[i][3], trace[i][4], trace[i][5])
              /\ At("DefWindowProc") = Len(trace) - 1
              /\ trace[Len(trace)] = Ev("return", DefWindowProc(trace[i][3]), 0, 0, 0)
    /\ \A hWnd \in Handles, uMsg \in AllMsgs \ {WM_NCCREATE}, lParam \in MouseLParams \cup {0} :
          LET r == WndProc(hWnd, uMsg, VK_A, lParam, NULL, Quiet)
          IN  /\ r.ev = FallThrough(hWnd, uMsg, VK_A, lParam)
              /\ ~r.quit /\ ~r.raised /\ r.p = NULL
              /\ r.ret = DefWindowProc(uMsg)

\* CreateWindowExW has sent a message to the window before its creation
\* notification: the slot was empty and the message went to DefWindowProc.
C11_Witness ==
    /\ cw.shell # NULL
    /\ ctorPc[cw.shell] = "creating"
    /\ ncHandle[cw.shell] = NULL
    /\ trace = FallThrough(cw.hWnd, WM_GETMINMAXINFO, 0, 0)
    /\ userData[cw.hWnd] = NULL
    /\ ~quitPending

\* ------------------------------------------------------------ C12

\* The routing table: the hook a modelled message goes to.
RoutedHook(uMsg) ==
    CASE uMsg = WM_PAINT -> "OnPaint"
      [] uMsg = WM_KEYDOWN -> "OnKeyDown"
      [] uMsg = WM_KEYUP -> "OnKeyUp"
      [] uMsg \in {WM_LBUTTONDOWN, WM_MBUTTONDOWN, WM_RBUTTONDOWN} -> "OnMouseButtonDown"
      [] uMsg \in {WM_LBUTTONUP, WM_MBUTTONUP, WM_RBUTTONUP} -> "OnMouseButtonUp"
      [] uMsg = WM_MOUSEMOVE -> "OnMouseMove"
      [] uMsg = WM_CLOSE -> "OnClose"

\* The button a button message is about, and the logical id of a button.
ButtonOf(uMsg) ==
    CASE uMsg \in {WM_LBUTTONDOWN, WM_LBUTTONUP} -> "left"
      [] uMsg \in {WM_MBUTTONDOWN, WM_MBUTTONUP} -> "middle"
      [] uMsg \in {WM_RBUTTONDOWN, WM_RBUTTONUP} -> "right"

LogicalId == [left |-> VK_LBUTTON, middle |-> VK_MBUTTON, right |-> VK_RBUTTON]

\* The pointer positions the move messages of the model were packed from.
Points == {<<3, 7>>, <<-2, 5>>}

\* The events of the trace that are hook calls.
HookCalls == {j \in DOMAIN trace : trace[j][1] \in HookNames}

\* C12: a modelled message dispatched to a window with an associated shell
\* invokes exactly one hook, once: the one the routing table gives, on that
\* shell, with the key code of a key message, the logical id of the button of
\* a button message (the same id for down and up, three distinct ids), and
\* the coordinates a move message was packed from.  HandleOtherMessages and
\* DefWindowProc are not invoked, and when the hook returns, WndProc returns
\* TRUE.
C12_Routing ==
    /\ Cardinality({LogicalId[b] : b \in DOMAIN LogicalId}) = 3
    /\ \A i \in DOMAIN trace :
          (trace[i][1] = "WndProc" /\ trace[i][3] \in ModelledMsgs /\ Associated) =>
              LET uMsg == trace[i][3]
                  wParam == trace[i][4]
                  lParam == trace[i][5]
                  shell == trace[At("GetWindowLongPtr")][3]
              IN  /\ Cardinality(HookCalls) = 1
                  /\ ~Has("HandleOtherMessages")
                  /\ ~Has("DefWindowProc")
                  /\ \A j \in HookCalls :
                        /\ trace[j][1] = RoutedHook(uMsg)
                        /\ trace[j][2] = shell
                        /\ uMsg \in {WM_KEYDOWN, WM_KEYUP} =>
                              trace[j][3] = wParam
                        /\ uMsg \in {WM_LBUTTONDOWN, WM_MBUTTONDOWN, WM_RBUTTONDOWN,
                                     WM_LBUTTONUP, WM_MBUTTONUP, WM_RBUTTONUP} =>
                              trace[j][3] = LogicalId[ButtonOf(uMsg)]
                        /\ uMsg = WM_MOUSEMOVE =>
                              \E pt \in Points :
                                  /\ lParam = MAKELPARAM(pt[1], pt[2])
                                  /\ trace[j][3] = pt[1]
                                  /\ trace[j][4] = pt[2]
                        /\ trace[j][5] = 0 =>
                              /\ Count("return") = 1
                              /\ trace[Len(trace)] = Ev("return", 1, 0, 0, 0)
                        /\ trace[j][5] = 1 => ~Has("return")

\* A pump has dispatched a move message with a negative x: OnMouseMove got
\* the two coordinates and WndProc returned TRUE.
C12_Witness ==
    /\ Has("DispatchMessageW")
    /\ Entered(WM_MOUSEMOVE)
    /\ Associated
    /\ Has("OnMouseMove")
    /\ trace[At("OnMouseMove")][3] = -2
    /\ trace[At("OnMouseMove")][4] = 5
    /\ trace[Len(trace)] = Ev("return", 1, 0, 0, 0)

\* ------------------------------------------------------------ C13

\* The assignments of m_hWnd the last operation made, by position in the
\* trace; one made by the creation-notification branch of WndProc follows the
\* store into the slot, one made by the constructor follows the return of
\* CreateWindowExW.
Writes == {i \in DOMAIN trace : trace[i][1] = "m_hWnd"}
ByNotification(i) == i > 1 /\ trace[i - 1][1] = "SetWindowLongPtr"
ByConstructor(i) == i > 1 /\ trace[i - 1][1] = "CreateWindowExW returns"

\* The value m_hWnd of shell s has, it got from the writer named.
NotificationWrote(s) ==
    \E i \in Writes : ByNotification(i) /\ trace[i] = Ev("m_hWnd", s, m_hWnd[s], 0, 0)
ConstructorWrote(s) ==
    \E i \in Writes : ByConstructor(i) /\ trace[i] = Ev("m_hWnd", s, m_hWnd[s], 0, 0)

\* C13 (as stated): once the construction of a shell has begun, every step
\* that assigns its m_hWnd is the creation-notification branch of WndProc.
C13_OnlyNotificationWrites ==
    [][/\ \A s \in Shells :
             (ctorPc[s] # "new" /\ m_hWnd'[s] # m_hWnd[s]) => NotificationWrote(s)'
       /\ \A i \in Writes' : ByNotification(i)']_vars

\* C13 (amended): once the construction of a shell has begun, m_hWnd is
\* assigned at two places and nowhere else: the creation-notification branch
\* of WndProc, and the constructor, which assigns what CreateWindowExW
\* returned.  After a successful creation the constructor's assignment
\* writes the notification's handle again; after a failed one it writes null
\* over whatever m_hWnd held.  Every other step leaves m_hWnd of every shell
\* alone.
C13_TwoWriters ==
    [][/\ \A s \in Shells :
             (ctorPc[s] # "new" /\ m_hWnd'[s] # m_hWnd[s]) =>
                 (NotificationWrote(s)' \/ ConstructorWrote(s)')
       /\ \A i \in Writes' : ByNotification(i)' \/ ByConstructor(i)'
       /\ \A s \in Shells :
             ConstructorWrote(s)' =>
                 /\ ctorPc[s] = "creating"
                 /\ m_hWnd'[s] = ctorRet'[s].CreateWindowExW
                 /\ m_hWnd'[s] # NULL => m_hWnd'[s] = m_hWnd[s]
       /\ (\E i \in Writes' : ByNotification(i)') => Entered(WM_NCCREATE)']_vars

\* A creation has failed after its notification: the constructor has written
\* null over the handle the notification had stored.
C13_Witness ==
    \E s \in Shells :
        /\ ncHandle[s] # NULL
        /\ m_hWnd[s] = NULL
        /\ ConstructorWrote(s)
        /\ ctorPc[s] = "raised"

\* ------------------------------------------------------------ C14

\* The shells whose object exists or is being constructed past registration.
Living == {s \in Shells : ctorPc[s] \in {"creating", "showing", "done"}}

\* The slot of every window is empty or holds one shell, whose m_hWnd is that
\* window's handle; no shell is held by the slots of two windows, and no two
\* shells with a window have the same m_hWnd.
OneShellPerWindow ==
    /\ \A h \in windows :
          userData[h] # NULL =>
              /\ userData[h] \in Living
              /\ m_hWnd[userData[h]] = h
    /\ \A h \in Handles \ windows : userData[h] = NULL
    /\ \A h1, h2 \in windows :
          (h1 # h2 /\ userData[h1] # NULL) => userData[h1] # userData[h2]
    /\ \A s1, s2 \in Shells :
          (s1 # s2 /\ ctorPc[s1] \in {"showing", "done"} /\ ctorPc[s2] \in {"showing", "done"}) =>
              m_hWnd[s1] # m_hWnd[s2]

\* The slot of a window changes only from empty to a shell, in a step in
\* which WndProc ran the creation notification for that window (or when the
\* platform takes the window away on a failed creation); WndProc stores into
\* the slot only on WM_NCCREATE and reads it only on the other messages.
SlotWrittenOnce ==
    /\ \A h \in Handles :
          userData'[h] # userData[h] =>
              \/ /\ userData[h] = NULL
                 /\ trace'[1] = Ev("WndProc", h, WM_NCCREATE, 0, userData'[h])
                 /\ trace'[2] = Ev("SetWindowLongPtr", h, userData'[h], 0, 0)
              \/ /\ h \in windows /\ h \notin windows'
                 /\ userData'[h] = NULL
    /\ \A i \in DOMAIN trace' :
          trace'[i][1] = "WndProc" =>
              /\ trace'[i][3] = WM_NCCREATE =>
                    Has("SetWindowLongPtr")' /\ ~Has("GetWindowLongPtr")'
              /\ trace'[i][3] # WM_NCCREATE =>
                    /\ ~Has("SetWindowLongPtr")'
                    /\ Count("GetWindowLongPtr")' = 1
                    /\ userData'[trace'[i][2]] = userData[trace'[i][2]]

\* C14: for as long as shells live (the code has no operation that ends a
\* shell's life or takes its window away), the GWLP_USERDATA slot of a window
\* is written once, by the window's creation notification, and only read by
\* every other message; in every reachable state a window's slot is empty or
\* holds exactly one shell whose m_hWnd is that window's handle, and no two
\* shells are associated with the same window.
C14_OneShellPerWindow ==
    []OneShellPerWindow /\ [][SlotWrittenOnce]_vars

\* Two shells are constructed, each held by the slot of its own window, and
\* a pump has just read one of the slots.
C14_Witness ==
    /\ \A s \in Shells : ctorPc[s] = "done" /\ userData[m_hWnd[s]] = s
    /\ m_hWnd[1] # m_hWnd[2]
    /\ Has("DispatchMessageW")
    /\ Has("GetWindowLongPtr")
    /\ trace[At("GetWindowLongPtr")][3] = 2

\* ------------------------------------------------------------ C15

\* C15: once a shell's constructor has returned, every step of the library
\* (every message dispatched through WndProc by WaitMessage or PollMessage, a
\* close request included, every other construction, every report) leaves
\* the shell constructed and its m_hWnd at the value CreateWindowExW returned
\* to the constructor, and leaves that window in existence with the shell in
\* its slot: the library does not destroy it, and passes no close request on
\* to the default handling that would.
C15_HandleStaysValid ==
    [][\A s \in Shells :
          ctorPc[s] = "done" =>
              /\ ctorPc'[s] = "done"
              /\ m_hWnd'[s] = m_hWnd[s]
              /\ m_hWnd'[s] = ctorRet'[s].CreateWindowExW
              /\ m_hWnd[s] \in windows
              /\ m_hWnd'[s] \in windows'
              /\ userData'[m_hWnd'[s]] = s
              /\ \A i \in DOMAIN trace' :
                    trace'[i][1] = "DefWindowProc" => ~DefWindowProcDestroys(trace'[i][3])]_vars

\* A pump has dispatched a close request to the window of a constructed
\* shell: the quit signal is posted and the window is still there.
C15_Witness ==
    \E s \in Shells :
        /\ ctorPc[s] = "done"
        /\ Has("DispatchMessageW")
        /\ trace[At("DispatchMessageW")] = Ev("DispatchMessageW", m_hWnd[s], WM_CLOSE, 0, 0)
        /\ Has("PostQuitMessage")
        /\ quitPending
        /\ m_hWnd[s] \in windows
        /\ userData[m_hWnd[s]] = s

\* ------------------------------------------------------------ C16

\* C16: the creation notification is routed like an unmodelled message.  On
\* WM_NCCREATE WndProc stores the shell in the slot, back-fills the shell's
\* m_hWnd, and then invokes HandleOtherMessages on that shell with the id
\* WM_NCCREATE; DefWindowProc is invoked, once and with the message, exactly
\* when the hook returns FALSE.  All of this happens inside CreateWindowExW:
\* the shell's constructor has not returned and has not called ShowWindow.
C16_CreationRouted ==
    \A i \in DOMAIN trace :
        (trace[i][1] = "WndProc" /\ trace[i][3] = WM_NCCREATE) =>
            LET hWnd == trace[i][2]
                shell == trace[i][5]
            IN  /\ shell \in Shells
                /\ SubSeq(trace, 1, 3) =
                       <<trace[i], Ev("SetWindowLongPtr", hWnd, shell, 0, 0),
                         Ev("m_hWnd", shell, hWnd, 0, 0)>>
                /\ userData[hWnd] = shell
                /\ m_hWnd[shell] = hWnd
                /\ Cardinality(HookCalls) = 1
                /\ Count("HandleOtherMessages") = 1
                /\ At("HandleOtherMessages") = 4
                /\ LET hk == trace[4]
                   IN  /\ hk[2] = shell
                       /\ hk[3] = WM_NCCREATE
                       /\ (hk[5] = 0 /\ hk[4] = 0) <=> Has("DefWindowProc")
                       /\ Has("DefWindowProc") =>
                              /\ Count("DefWindowProc") = 1
                              /\ trace[5] = Ev("DefWindowProc", hWnd, WM_NCCREATE, 0, shell)
                       /\ (hk[5] = 0 /\ hk[4] = 1) => trace[5] = Ev("return", 1, 0, 0, 0)
                /\ cw.shell = shell
                /\ ctorPc[shell] = "creating"
                /\ "ShowWindow" \notin ctorCalls[shell]
                /\ ctorRet[shell].CreateWindowExW = Pending

\* Inside CreateWindowExW, the shell's HandleOtherMessages was invoked for
\* the creation notification and reported it handled: WndProc returned TRUE
\* without the default handling.
C16_Witness ==
    /\ cw.shell # NULL
    /\ ctorPc[cw.shell] = "creating"
    /\ Entered(WM_NCCREATE)
    /\ Len(trace) = 5
    /\ trace[4] = Ev("HandleOtherMessages", cw.shell, WM_NCCREATE, 1, 0)
    /\ trace[5] = Ev("return", 1, 0, 0, 0)
    /\ m_hWnd[cw.shell] = cw.hWnd

\* ------------------------------------------------------------ C17

\* The constructions that got past registration, whatever became of them.
PastRegistration == {s \in Shells : ctorRet[s].RegisterClassW = 1}

\* C17: the class is registered under the window title and no operation
\* unregisters it.  The set of registered class names never loses a name and
\* always holds the title of every construction that got past registration,
\* whether that construction then succeeded or failed at creation; and, the
\* platform rejecting a name that is registered already, a construction whose
\* title is the title of such an earlier construction raises the
\* registration failure and creates no window.
C17_TitleRegisteredForGood ==
    [][/\ registered \subseteq registered'
       /\ registered' = {title'[s] : s \in PastRegistration'}
       /\ \A s \in Shells :
             (/\ ctorPc[s] = "new"
              /\ ctorPc'[s] # "new"
              /\ \E o \in PastRegistration : title[o] = title'[s]) =>
                 /\ ctorPc'[s] = "raised"
                 /\ ctorThrew'[s] = RegisterFailed
                 /\ ctorRet'[s] = [RegisterClassW |-> 0, CreateWindowExW |-> Pending]
                 /\ outcome' = "ApplicationException"
                 /\ m_info' = ApplicationException(RegisterFailed, lastError')
                 /\ windows' = windows]_vars

\* A construction failed at creation, and a later construction with the same
\* title has raised the registration failure.
C17_Witness ==
    \E o, s \in Shells :
        /\ o # s
        /\ ctorThrew[o] = CreateFailed
        /\ ctorThrew[s] = RegisterFailed
        /\ title[o] = title[s]
        /\ registered = {title[o]}
        /\ outcome = "ApplicationException"
        /\ thrown.lpInfo = RegisterFailed
        /\ lastError = ERROR_CLASS_ALREADY_EXISTS

====
